---------------------------- MODULE Spec2Model ----------------------------
(***************************************************************************)
(* WireViz: the harness data model (Connector, Cable, Connection,          *)
(* Harness), pin/range expansion and the connection resolver of parse().   *)
(*                                                                         *)
(* Python values that mix types are tagged records:                        *)
(*   [int |-> n]   an int           [str |-> <<"1","-","2">>]  a str       *)
(*   [list |-> s]  a list           [none |-> TRUE]            None        *)
(* A str is the sequence of its characters, so that str(), "in", split()   *)
(* and int() are computed and not assumed.                                 *)
(***************************************************************************)
EXTENDS Integers, Sequences, FiniteSets, TLC

VARIABLES
    pc,               \* position of parse(): the section being read, or the outcome
    input,            \* the document read so far: input[sec] maps a name to its attributes
    connectors,       \* Harness.connectors: name -> Connector
    cables,           \* Harness.cables: name -> Cable
    ferrule_counter,  \* parse(): ferrule_counter
    con,              \* parse(): the connection record of the current loop iteration
    err,              \* the exception that ended parse(), or "none"
    nrec,             \* number of connection records read
    expIn,            \* argument of the last call of expand() made on its own
    expOut,           \* its result
    dot,              \* the graph description create_graph() built last
    bom_out,          \* the list bom() returned last
    conv              \* the last call of awg_equiv() or mm2_equiv() made on its own

vars == <<pc, input, connectors, cables, ferrule_counter, con, err, nrec, expIn, expOut,
          dot, bom_out, conv>>

harness == <<connectors, cables>>

-----------------------------------------------------------------------------
(* Python values *)

PInt(n) == [int |-> n]
PStr(s) == [str |-> s]
PList(l) == [list |-> l]
PNone == [none |-> TRUE]

IsInt(v) == DOMAIN v = {"int"}
IsStr(v) == DOMAIN v = {"str"}
IsList(v) == DOMAIN v = {"list"}
IsNone(v) == DOMAIN v = {"none"}

\* None where a name (a Python str held as a TLA+ string) is expected
None == "None"

Digits == <<"0", "1", "2", "3", "4", "5", "6", "7", "8", "9">>

IsDigit(c) == \E d \in 1..10 : Digits[d] = c

DigitVal(c) == (CHOOSE d \in 1..10 : Digits[d] = c) - 1

\* str(n) for an int n
RECURSIVE IntToStr(_)
IntToStr(n) ==
    IF n < 0 THEN <<"-">> \o IntToStr(-n)
    ELSE IF n < 10 THEN <<Digits[n + 1]>>
    ELSE IntToStr(n \div 10) \o <<Digits[(n % 10) + 1]>>

\* str(e)
str(e) == IF IsInt(e) THEN IntToStr(e.int) ELSE e.str

\* '-' in e
HasDash(s) == \E i \in 1..Len(s) : s[i] = "-"

\* e.split('-')
RECURSIVE split(_)
split(s) ==
    IF ~HasDash(s) THEN <<s>>
    ELSE LET i == CHOOSE j \in 1..Len(s) :
                      s[j] = "-" /\ \A k \in 1..(j - 1) : s[k] # "-"
         IN  <<SubSeq(s, 1, i - 1)>> \o split(SubSeq(s, i + 1, Len(s)))

\* value of a non-empty digit string
RECURSIVE DigitsToInt(_)
DigitsToInt(s) ==
    IF Len(s) = 1 THEN DigitVal(s[1])
    ELSE 10 * DigitsToInt(SubSeq(s, 1, Len(s) - 1)) + DigitVal(s[Len(s)])

AllDigits(s) == Len(s) > 0 /\ \A i \in 1..Len(s) : IsDigit(s[i])

\* int(s) succeeds: an optional sign and at least one digit
IntParses(s) ==
    \/ AllDigits(s)
    \/ Len(s) > 1 /\ s[1] \in {"-", "+"} /\ AllDigits(Tail(s))

\* int(s), where it succeeds
int(s) ==
    IF s[1] = "-" THEN 0 - DigitsToInt(Tail(s))
    ELSE IF s[1] = "+" THEN DigitsToInt(Tail(s))
    ELSE DigitsToInt(s)

-----------------------------------------------------------------------------
(* expand(): a result is [err |-> the exception or "none", out |-> the list] *)

\* range(a, b + 1) and range(a, b - 1, -1), appended item by item
RangeUp(a, b) == [i \in 1..(b - a + 1) |-> PInt(a + i - 1)]
RangeDown(a, b) == [i \in 1..(a - b + 1) |-> PInt(a - i + 1)]

\* one iteration of the loop, every range counted upwards
expand_element_ascending(e0) ==
    LET e == str(e0)
    IN  IF HasDash(e)
        THEN LET parts == split(e)
             IN  IF (\E i \in 1..Len(parts) : ~IntParses(parts[i])) \/ Len(parts) # 2
                 THEN [err |-> "ValueError", out |-> <<>>]
                 ELSE LET a == int(parts[1])
                          b == int(parts[2])
                      IN  [err |-> "none",
                           out |-> IF a < b THEN RangeUp(a, b) ELSE RangeUp(b, a)]
        ELSE [err |-> "none",
              out |-> <<IF IntParses(e) THEN PInt(int(e)) ELSE PStr(e)>>]

\* one iteration of the loop over the elements
expand_element(e0) ==
    LET e == str(e0)
    IN  IF HasDash(e)
        THEN LET parts == split(e)
             IN  IF (\E i \in 1..Len(parts) : ~IntParses(parts[i])) \/ Len(parts) # 2
                 THEN [err |-> "ValueError", out |-> <<>>]
                 ELSE LET a == int(parts[1])
                          b == int(parts[2])
                      IN  [err |-> "none",
                           out |-> IF a < b THEN RangeUp(a, b)
                                   ELSE IF a > b THEN RangeDown(a, b)
                                   ELSE <<PInt(a)>>]
        ELSE [err |-> "none",
              out |-> <<IF IntParses(e) THEN PInt(int(e)) ELSE PStr(e)>>]

RECURSIVE expand_loop(_, _, _)
expand_loop(list, i, output) ==
    IF i > Len(list) THEN [err |-> "none", out |-> output]
    ELSE LET r == expand_element(list[i])
         IN  IF r.err # "none" THEN [err |-> r.err, out |-> <<>>]
             ELSE expand_loop(list, i + 1, output \o r.out)

expand(inp) ==
    expand_loop(IF IsList(inp) THEN inp.list ELSE <<inp>>, 1, <<>>)

-----------------------------------------------------------------------------
(* Inputs of the calls of expand() made on their own *)

MaxStrLen == 3
MaxListLen == 2

Alphabet == {"1", "2", "3", "-", "A"}

RECURSIVE StringsOfLen(_)
StringsOfLen(n) ==
    IF n = 0 THEN {<<>>}
    ELSE {Append(s, c) : s \in StringsOfLen(n - 1), c \in Alphabet}

Strings == UNION {StringsOfLen(n) : n \in 0..MaxStrLen}

ScalarInputs == {PInt(n) : n \in 0..12} \cup {PStr(s) : s \in Strings}

ListElements ==
    {PInt(2), PStr(<<"A">>), PStr(<<"3", "-", "1">>), PStr(<<"1", "-", "1">>),
     PStr(<<"1", "-", "2">>), PStr(<<"1", "-", "A">>)}

RECURSIVE ListsOfLen(_)
ListsOfLen(n) ==
    IF n = 0 THEN {<<>>}
    ELSE {Append(l, e) : l \in ListsOfLen(n - 1), e \in ListElements}

ExpandInputs ==
    ScalarInputs \cup {PList(l) : l \in UNION {ListsOfLen(n) : n \in 0..MaxListLen}}

NoResult == [err |-> "none", out |-> <<>>]

-----------------------------------------------------------------------------
(* Entity model *)

\* wv_colors.COLOR_CODES: palette name -> colours
COLOR_CODES == [c \in {"DIN", "BW"} |->
                   IF c = "DIN" THEN <<"WH", "BN", "GN">> ELSE <<"BK", "WH">>]

\* ['',] * n , [''] * n
Blanks(n) == [i \in 1..n |-> ""]

\* colors * m
Repeat(colors, m) ==
    [i \in 1..(Len(colors) * m) |-> colors[((i - 1) % Len(colors)) + 1]]

\* colors[:n]; a negative n counts from the end
Prefix(colors, n) ==
    LET stop == IF n < 0 THEN Len(colors) + n ELSE n
    IN  SubSeq(colors, 1, IF stop < 0 THEN 0 ELSE IF stop < Len(colors) THEN stop ELSE Len(colors))

\* truth value of an optional int: None and 0 are false
Truthy(v) == IsInt(v) /\ v.int # 0

\* a keyword argument, or the default of the dataclass field when it is not given
Get(o, f, default) == IF f \in DOMAIN o THEN o[f] ELSE default

\* Connector(name, **o): [err, val]
Connector_post_init(name, o) ==
    LET base == [name |-> name, category |-> o.category,
                 type |-> Get(o, "type", PNone), subtype |-> Get(o, "subtype", PNone),
                 color |-> Get(o, "color", PNone),
                 hide_disconnected_pins |-> o.hide_disconnected_pins,
                 ports_left |-> FALSE, ports_right |-> FALSE,
                 loops |-> <<>>, visible_pins |-> {}]
    IN  IF Len(o.pinout) > 0
        THEN IF ~IsNone(o.pincount)
             THEN [err |-> "You cannot specify both pinout and pincount"]
             ELSE [err |-> "none",
                   val |-> [pincount |-> Len(o.pinout), pinout |-> o.pinout] @@ base]
        ELSE LET pincount == IF ~Truthy(o.pincount) THEN 1 ELSE o.pincount.int
             IN  [err |-> "none",
                  val |-> [pincount |-> pincount, pinout |-> Blanks(pincount)] @@ base]

\* the colours of a cable, an unknown color code taken as no color code
Cable_colors_unchecked(o) ==
    LET n == o.wirecount.int
        picked ==
            IF Len(o.colors) > 0 THEN o.colors
            ELSE IF o.color_code # None /\ o.color_code \in DOMAIN COLOR_CODES
            THEN COLOR_CODES[o.color_code]
            ELSE Blanks(n)
        looped == IF n > Len(picked)
                  THEN Repeat(picked, (n \div Len(picked)) + 1)
                  ELSE picked
    IN  [err |-> "none", val |-> Prefix(looped, n)]

\* the colours of a cable whose wirecount is given: [err, val]
Cable_colors(o) ==
    LET n == o.wirecount.int
        picked ==
            IF Len(o.colors) > 0 THEN [err |-> "none", val |-> o.colors]
            ELSE IF o.color_code # None
            THEN IF o.color_code \notin DOMAIN COLOR_CODES
                 THEN [err |-> "Unknown color code"]
                 ELSE [err |-> "none", val |-> COLOR_CODES[o.color_code]]
            ELSE [err |-> "none", val |-> Blanks(n)]
    IN  IF picked.err # "none" THEN picked
        ELSE LET looped == IF n > Len(picked.val)
                           THEN Repeat(picked.val, (n \div Len(picked.val)) + 1)
                           ELSE picked.val
             IN  [err |-> "none", val |-> Prefix(looped, n)]

\* s.split(sep) for a one-character sep
RECURSIVE split_at(_, _)
split_at(s, sep) ==
    IF \A i \in 1..Len(s) : s[i] # sep THEN <<s>>
    ELSE LET i == CHOOSE j \in 1..Len(s) :
                      s[j] = sep /\ \A k \in 1..(j - 1) : s[k] # sep
         IN  <<SubSeq(s, 1, i - 1)>> \o split_at(SubSeq(s, i + 1, Len(s)), sep)

\* u.replace('mm2', 'mm\u00B2')
RECURSIVE replace_mm2(_)
replace_mm2(u) ==
    IF Len(u) = 0 THEN u
    ELSE IF Len(u) >= 3 /\ SubSeq(u, 1, 3) = <<"m", "m", "2">>
    THEN <<"m", "m", "^2">> \o replace_mm2(SubSeq(u, 4, Len(u)))
    ELSE <<Head(u)>> \o replace_mm2(Tail(u))

\* the gauge and its unit: [err, gauge, gauge_unit]
Cable_gauge(o) ==
    LET gauge == Get(o, "gauge", PNone)
        gauge_unit == Get(o, "gauge_unit", PNone)
    IN  IF IsStr(gauge)
        THEN LET parts == split_at(gauge.str, " ")
             IN  IF Len(parts) # 2
                 THEN [err |-> "Gauge must be a number, or number and unit separated by a space"]
                 ELSE [err |-> "none", gauge |-> PStr(parts[1]),
                       gauge_unit |-> PStr(replace_mm2(parts[2]))]
        ELSE IF ~IsNone(gauge)
        THEN [err |-> "none", gauge |-> gauge,
              gauge_unit |-> IF IsNone(gauge_unit) THEN PStr(<<"m", "m", "^2">>)
                             ELSE gauge_unit]
        ELSE [err |-> "none", gauge |-> gauge, gauge_unit |-> gauge_unit]

\* Cable(name, **o): [err, val]
Cable_post_init(name, o) ==
    LET g == Cable_gauge(o)
        base == [name |-> name, category |-> o.category, connections |-> <<>>,
                 gauge |-> g.gauge, gauge_unit |-> g.gauge_unit,
                 length |-> Get(o, "length", 0), shield |-> Get(o, "shield", FALSE)]
    IN  IF g.err # "none" THEN [err |-> g.err]
        ELSE IF Truthy(o.wirecount)
        THEN LET c == Cable_colors(o)
             IN  IF c.err # "none" THEN [err |-> c.err]
                 ELSE [err |-> "none",
                       val |-> [wirecount |-> o.wirecount.int, colors |-> c.val] @@ base]
        ELSE IF Len(o.colors) = 0
             THEN [err |-> "Unknown number of wires"]
             ELSE [err |-> "none",
                   val |-> [wirecount |-> Len(o.colors), colors |-> o.colors] @@ base]

Connection(from_name, from_port, via_port, to_name, to_port) ==
    [from_name |-> from_name, from_port |-> from_port, via_port |-> via_port,
     to_name |-> to_name, to_port |-> to_port]

\* Cable.connect putting the new Connection first
Cable_connect_prepend(cable, from_name, from_pin, via_pin, to_name, to_pin) ==
    [cable EXCEPT !.connections =
        <<Connection(from_name, from_pin, via_pin, to_name, to_pin)>> \o @]

\* Cable.connect: int2tuple makes each pin a 1-tuple, so one Connection is appended
Cable_connect(cable, from_name, from_pin, via_pin, to_name, to_pin) ==
    [cable EXCEPT !.connections =
        Append(@, Connection(from_name, from_pin, via_pin, to_name, to_pin))]

Connector_activate_pin(c, pin) ==
    [c EXCEPT !.visible_pins = @ \cup {pin}]

Connector_loop(c, from_pin, to_pin) ==
    [c EXCEPT !.loops = Append(@, <<from_pin, to_pin>>),
              !.visible_pins = IF c.hide_disconnected_pins
                               THEN @ \cup {from_pin, to_pin} ELSE @]

(* Harness: H is [connectors, cables] *)

Harness_add_connector(H, name, val) ==
    [H EXCEPT !.connectors = (name :> val) @@ @]

Harness_loop(H, connector_name, from_pin, to_pin) ==
    [H EXCEPT !.connectors[connector_name] = Connector_loop(@, from_pin, to_pin)]

Harness_connect(H, from_name, from_pin, via_name, via_pin, to_name, to_pin) ==
    LET H1 == [H EXCEPT !.cables[via_name] =
                   Cable_connect(@, from_name, from_pin, via_pin, to_name, to_pin)]
        H2 == IF from_name \in DOMAIN H1.connectors
              THEN [H1 EXCEPT !.connectors[from_name] = Connector_activate_pin(@, from_pin)]
              ELSE H1
    IN  IF to_name \in DOMAIN H2.connectors
        THEN [H2 EXCEPT !.connectors[to_name] = Connector_activate_pin(@, to_pin)]
        ELSE H2

-----------------------------------------------------------------------------
(* parse(): the connection resolver *)

\* An element of a connection record: a bare name (isdict FALSE) or a mapping with
\* the one key `key`; a bare name of a 2-element record becomes {name: name}.
Chars ==
    [n \in {"X1", "_F1", "W1", "W2", "F1"} |->
        CASE n = "X1" -> <<"X", "1">>
          [] n = "_F1" -> <<"_", "F", "1">>
          [] n = "W1" -> <<"W", "1">>
          [] n = "W2" -> <<"W", "2">>
          [] n = "F1" -> <<"F", "1">>]

Elem(name, spec) == [key |-> name, val |-> spec, isdict |-> TRUE]
Bare(name) == [key |-> name, val |-> PStr(Chars[name]), isdict |-> FALSE]

\* '_F{}'.format(ferrule_counter)
FerruleIds == <<"_F1", "_F2", "_F3", "_F4", "_F5", "_F6", "_F7", "_F8", "_F9">>
ferrule_id(n) == FerruleIds[n]

check_designators(what, where) ==
    \A i \in 1..Len(what) : what[i] \in DOMAIN input[where[i]]

\* len(list(zip(a, b, c))): zip stops at the shortest list
Min2(x, y) == IF x < y THEN x ELSE y
ZipLen(a, b, c) == Min2(Len(a), Min2(Len(b), Len(c)))

\* for (from_pin, via_pin, to_pin) in zip(...): h.connect(...)
RECURSIVE connect_zip(_, _, _, _, _, _, _, _)
connect_zip(H, from_name, from_pins, via_name, via_pins, to_name, to_pins, i) ==
    IF i > ZipLen(from_pins, via_pins, to_pins) THEN H
    ELSE connect_zip(
             Harness_connect(H, from_name, from_pins[i], via_name, via_pins[i],
                             to_name, to_pins[i]),
             from_name, from_pins, via_name, via_pins, to_name, to_pins, i + 1)

NonePins(n) == [i \in 1..n |-> PNone]

\* for (from_pin, to_pin) in zip(from_pins, to_pins): h.loop(...)
RECURSIVE loop_zip(_, _, _, _, _)
loop_zip(H, name, from_pins, to_pins, i) ==
    IF i > Min2(Len(from_pins), Len(to_pins)) THEN H
    ELSE loop_zip(Harness_loop(H, name, from_pins[i], to_pins[i]),
                  name, from_pins, to_pins, i + 1)

\* the 3-element record, comparing only the from and to lists
resolve3_from_to_only(H, rec) ==
    LET from_pins == expand(rec[1].val)
        via_pins == expand(rec[2].val)
        to_pins == expand(rec[3].val)
    IN  IF (\E i \in 1..3 : ~rec[i].isdict)
        THEN [err |-> "AttributeError", H |-> H]
        ELSE IF ~check_designators(<<rec[1].key, rec[2].key, rec[3].key>>,
                                   <<"connectors", "cables", "connectors">>)
        THEN [err |-> "Bad connection definition (3)", H |-> H]
        ELSE IF from_pins.err # "none" \/ via_pins.err # "none" \/ to_pins.err # "none"
        THEN [err |-> "ValueError", H |-> H]
        ELSE IF Len(from_pins.out) # Len(to_pins.out)
        THEN [err |-> "List length mismatch", H |-> H]
        ELSE [err |-> "none",
              H |-> connect_zip(H, rec[1].key, from_pins.out, rec[2].key, via_pins.out,
                                rec[3].key, to_pins.out, 1)]

\* the 3-element record: [err, H]
resolve3(H, rec) ==
    IF \E i \in 1..3 : ~rec[i].isdict
    THEN [err |-> "AttributeError", H |-> H]
    ELSE
    LET from_name == rec[1].key
        via_name == rec[2].key
        to_name == rec[3].key
        from_pins == expand(rec[1].val)
        via_pins == expand(rec[2].val)
        to_pins == expand(rec[3].val)
    IN  IF ~check_designators(<<from_name, via_name, to_name>>,
                              <<"connectors", "cables", "connectors">>)
        THEN [err |-> "Bad connection definition (3)", H |-> H]
        ELSE IF from_pins.err # "none" \/ via_pins.err # "none" \/ to_pins.err # "none"
        THEN [err |-> "ValueError", H |-> H]
        ELSE IF Len(from_pins.out) # Len(via_pins.out)
                \/ Len(via_pins.out) # Len(to_pins.out)
        THEN [err |-> "List length mismatch", H |-> H]
        ELSE [err |-> "none",
              H |-> connect_zip(H, from_name, from_pins.out, via_name, via_pins.out,
                                to_name, to_pins.out, 1)]

\* for cable_pin in cable_pins: a new ferrule and its connection: [err, H, fc]
RECURSIVE ferrule_loop(_, _, _, _, _, _, _)
ferrule_loop(H, fc, ferrule_params, cable_name, cable_pins, fer_cbl, i) ==
    IF i > Len(cable_pins) THEN [err |-> "none", H |-> H, fc |-> fc]
    ELSE
    LET counter == fc + 1
        id == ferrule_id(counter)
        c == Connector_post_init(id, [category |-> "ferrule"] @@ ferrule_params)
    IN  IF c.err # "none" THEN [err |-> c.err, H |-> H, fc |-> counter]
        ELSE
        LET H1 == Harness_add_connector(H, id, c.val)
            H2 == IF fer_cbl
                  THEN Harness_connect(H1, id, PInt(1), cable_name, cable_pins[i],
                                       None, PNone)
                  ELSE Harness_connect(H1, None, PNone, cable_name, cable_pins[i],
                                       id, PInt(1))
        IN  ferrule_loop(H2, counter, ferrule_params, cable_name, cable_pins,
                         fer_cbl, i + 1)

\* the 2-element record: [err, H, fc]
resolve2(H, fc, rec) ==
    LET from_name == rec[1].key
        to_name == rec[2].key
        con_cbl == check_designators(<<from_name, to_name>>, <<"connectors", "cables">>)
        cbl_con == check_designators(<<from_name, to_name>>, <<"cables", "connectors">>)
        con_con == check_designators(<<from_name, to_name>>, <<"connectors", "connectors">>)
        fer_cbl == check_designators(<<from_name, to_name>>, <<"ferrules", "cables">>)
        cbl_fer == check_designators(<<from_name, to_name>>, <<"cables", "ferrules">>)
        from_pins == expand(rec[1].val)
        to_pins == expand(rec[2].val)
        n == Min2(Len(from_pins.out), Len(to_pins.out))
        \* if con_cbl or cbl_con: ... elif con_con: ...
        H1 == IF con_cbl
              THEN connect_zip(H, from_name, from_pins.out, to_name, to_pins.out,
                               None, NonePins(n), 1)
              ELSE IF cbl_con
              THEN connect_zip(H, None, NonePins(n), from_name, from_pins.out,
                               to_name, to_pins.out, 1)
              ELSE IF con_con
              THEN loop_zip(H, from_name, from_pins.out, to_pins.out, 1)
              ELSE H
    IN  IF ~con_cbl /\ ~cbl_con /\ ~con_con /\ ~fer_cbl /\ ~cbl_fer
        THEN [err |-> "Wrong designators", H |-> H, fc |-> fc]
        ELSE IF from_pins.err # "none" \/ to_pins.err # "none"
        THEN [err |-> "ValueError", H |-> H, fc |-> fc]
        ELSE IF (con_cbl \/ cbl_con \/ con_con) /\ Len(from_pins.out) # Len(to_pins.out)
        THEN [err |-> "List length mismatch", H |-> H, fc |-> fc]
        ELSE IF fer_cbl \/ cbl_fer
        THEN ferrule_loop(H1, fc,
                          input.ferrules[IF fer_cbl THEN from_name ELSE to_name],
                          IF fer_cbl THEN to_name ELSE from_name,
                          IF fer_cbl THEN to_pins.out ELSE from_pins.out,
                          fer_cbl, 1)
        ELSE [err |-> "none", H |-> H1, fc |-> fc]

-----------------------------------------------------------------------------
(* Harness.create_graph *)

\* first pass with the two sides taken for each other
prepare_ports_swapped(H) ==
    LET Some(P(_)) == \E w \in DOMAIN H.cables :
                          \E i \in 1..Len(H.cables[w].connections) :
                              P(H.cables[w].connections[i])
    IN  [H EXCEPT !.connectors =
            [k \in DOMAIN H.connectors |->
                LET from_k(x) == ~IsNone(x.from_port) /\ x.from_name = k
                    to_k(x) == ~IsNone(x.to_port) /\ x.to_name = k
                IN  [H.connectors[k] EXCEPT !.ports_left = @ \/ Some(from_k),
                                            !.ports_right = @ \/ Some(to_k)]]]

\* first pass that flips a side each time it is used
prepare_ports_flipping(H) ==
    LET Some(P(_)) == \E w \in DOMAIN H.cables :
                          \E i \in 1..Len(H.cables[w].connections) :
                              P(H.cables[w].connections[i])
    IN  [H EXCEPT !.connectors =
            [k \in DOMAIN H.connectors |->
                LET from_k(x) == ~IsNone(x.from_port) /\ x.from_name = k
                    to_k(x) == ~IsNone(x.to_port) /\ x.to_name = k
                IN  [H.connectors[k] EXCEPT !.ports_right = @ # Some(from_k),
                                            !.ports_left = @ # Some(to_k)]]]

\* first pass: the sides of each connector that some Connection attaches to
prepare_ports(H) ==
    LET Some(P(_)) == \E w \in DOMAIN H.cables :
                          \E i \in 1..Len(H.cables[w].connections) :
                              P(H.cables[w].connections[i])
    IN  [H EXCEPT !.connectors =
            [k \in DOMAIN H.connectors |->
                LET from_k(x) == ~IsNone(x.from_port) /\ x.from_name = k
                    to_k(x) == ~IsNone(x.to_port) /\ x.to_name = k
                IN  [H.connectors[k] EXCEPT !.ports_right = @ \/ Some(from_k),
                                            !.ports_left = @ \/ Some(to_k)]]]

\* second pass: a connector with loops needs a side to draw them on
no_side_for_loops(H) ==
    \E k \in DOMAIN H.connectors :
        LET n == H.connectors[k]
        IN  /\ n.category # "ferrule"
            /\ Len(n.loops) > 0
            /\ ~n.ports_left
            /\ ~n.ports_right

\* the positions of the pinout that get a port: enumerate(n.pinout, 1) without the
\* pins skipped by 'continue'
RECURSIVE emitted_pins(_, _)
emitted_pins(n, i) ==
    IF i > Len(n.pinout) THEN <<>>
    ELSE IF n.hide_disconnected_pins /\ PInt(i) \notin n.visible_pins
    THEN emitted_pins(n, i + 1)
    ELSE <<i>> \o emitted_pins(n, i + 1)

\* dot.node of a connector that is not a ferrule: p[1], and whether p[0] and p[2] are filled
connector_node(n) ==
    [pins |-> emitted_pins(n, 1), left |-> n.ports_left, right |-> n.ports_right]

\* dot.edge of each loop of a connector that has a side
loop_edges(n) ==
    LET loop_side == IF n.ports_left THEN "l" ELSE "r"
    IN  [i \in 1..Len(n.loops) |->
            [name |-> n.name, port_from |-> n.loops[i][1], port_to |-> n.loops[i][2],
             loop_side |-> loop_side]]

\* c.colors[x.via_port - 1] raises IndexError: a list index counts from either end
color_lookup_fails(c, x) ==
    /\ IsInt(x.via_port)
    /\ \/ x.via_port.int - 1 >= Len(c.colors)
       \/ x.via_port.int - 1 < 0 - Len(c.colors)

\* dot.edge of each Connection of a cable: to the left, to the right
RECURSIVE wire_edges(_, _)
wire_edges(c, i) ==
    IF i > Len(c.connections) THEN <<>>
    ELSE LET x == c.connections[i]
             left == IF ~IsNone(x.from_port)
                     THEN <<[from |-> <<x.from_name, x.from_port>>,
                             to |-> <<c.name, x.via_port>>]>>
                     ELSE <<>>
             right == IF ~IsNone(x.to_port)
                      THEN <<[from |-> <<c.name, x.via_port>>,
                              to |-> <<x.to_name, x.to_port>>]>>
                      ELSE <<>>
         IN  left \o right \o wire_edges(c, i + 1)

\* create_graph(): [err, H, dot]; the ports it has set stay set when it raises
create_graph(H) ==
    LET H1 == prepare_ports(H)
        generic == {k \in DOMAIN H1.connectors : H1.connectors[k].category # "ferrule"}
    IN  IF no_side_for_loops(H1)
        THEN [err |-> "No side for loops", H |-> H1]
        ELSE IF \E w \in DOMAIN H1.cables :
                   \E i \in 1..Len(H1.cables[w].connections) :
                       color_lookup_fails(H1.cables[w], H1.cables[w].connections[i])
        THEN [err |-> "IndexError", H |-> H1]
        ELSE [err |-> "none", H |-> H1,
              dot |-> [nodes |-> [k \in generic |-> connector_node(H1.connectors[k])],
                       loops |-> [k \in generic |-> loop_edges(H1.connectors[k])],
                       edges |-> [w \in DOMAIN H1.cables |-> wire_edges(H1.cables[w], 1)]]]

-----------------------------------------------------------------------------
(* Harness.bom: texts are sequences of characters, compared as Python compares str *)

\* the characters the texts are made of, in the order of their code points
CodePoints ==
    <<" ", ",", "0", "1", "2", "3", "4", "5", "6", "7", "8", "9",
      "A", "B", "C", "D", "E", "F", "G", "H", "K", "N", "R", "U", "W", "X", "Y", "_",
      "a", "b", "c", "d", "e", "h", "i", "l", "m", "n", "o", "p", "r", "s", "t", "w", "x",
      "^2">>

ord(ch) == CHOOSE i \in 1..Len(CodePoints) : CodePoints[i] = ch

\* a < b for two str
RECURSIVE Less(_, _)
Less(a, b) ==
    IF Len(b) = 0 THEN FALSE
    ELSE IF Len(a) = 0 THEN TRUE
    ELSE IF a[1] = b[1] THEN Less(Tail(a), Tail(b))
    ELSE ord(a[1]) < ord(b[1])

\* sorted(list, key=Key): stable
sorted(list, Key(_)) ==
    LET before(j, i) == \/ Less(Key(list[j]), Key(list[i]))
                        \/ Key(list[j]) = Key(list[i]) /\ j < i
        rank(i) == Cardinality({j \in 1..Len(list) : before(j, i)}) + 1
    IN  [r \in 1..Len(list) |-> list[CHOOSE i \in 1..Len(list) : rank(i) = r]]

\* the characters of a name and of a colour
NameChars(name) ==
    IF name \in DOMAIN Chars THEN Chars[name]
    ELSE <<"_", "F">> \o IntToStr(CHOOSE i \in 1..Len(FerruleIds) : FerruleIds[i] = name)

ColorChars(color) ==
    CASE color = "" -> <<>>
      [] color = "RD" -> <<"R", "D">>
      [] color = "BK" -> <<"B", "K">>
      [] color = "BU" -> <<"B", "U">>
      [] color = "YE" -> <<"Y", "E">>
      [] color = "GN" -> <<"G", "N">>
      [] color = "WH" -> <<"W", "H">>
      [] color = "BN" -> <<"B", "N">>

\* '{}'.format(v)
format(v) ==
    IF IsInt(v) THEN IntToStr(v.int)
    ELSE IF IsStr(v) THEN v.str
    ELSE <<"N", "o", "n", "e">>

\* truth value of an optional int or str
IsSet(v) == (IsInt(v) /\ v.int # 0) \/ (IsStr(v) /\ Len(v.str) > 0)

\* the keys of a dict in the order they were inserted; an overwritten key keeps its place
RECURSIVE keys_in(_, _)
keys_in(keys, dict) ==
    IF Len(keys) = 0 THEN <<>>
    ELSE (IF Head(keys) \in DOMAIN dict THEN <<Head(keys)>> ELSE <<>>)
             \o keys_in(Tail(keys), dict)

connector_keys(H, declared) ==
    keys_in(declared, H.connectors)
        \o keys_in(SelectSeq(FerruleIds,
                             LAMBDA id : \A i \in 1..Len(declared) : declared[i] # id),
                   H.connectors)

\* Counter(list): the distinct elements in the order they come first
RECURSIVE Counter(_)
Counter(list) ==
    IF Len(list) = 0 THEN <<>>
    ELSE LET front == SubSeq(list, 1, Len(list) - 1)
             last == list[Len(list)]
         IN  IF \E i \in 1..Len(front) : front[i] = last
             THEN Counter(front)
             ELSE Append(Counter(front), last)

\* ', {}'.format(v) if v else ''
Comma(v) == IF IsSet(v) THEN <<",", " ">> \o format(v) ELSE <<>>

connector_type(v) == <<v.type, v.subtype, v.pincount>>

\* the line item of one group of connectors
connector_item(H, keys, type) ==
    LET items == SelectSeq(keys, LAMBDA k : connector_type(H.connectors[k]) = type)
        shared == H.connectors[items[1]]
        designators == sorted(items, NameChars)
        name == <<"C", "o", "n", "n", "e", "c", "t", "o", "r">>
                    \o Comma(shared.type) \o Comma(shared.subtype)
                    \o (IF shared.category # "ferrule"
                        THEN <<",", " ">> \o IntToStr(shared.pincount)
                                 \o <<" ", "p", "i", "n", "s">>
                        ELSE <<>>)
                    \o Comma(shared.color)
    IN  [item |-> name, qty |-> Len(designators), unit |-> "",
         designators |-> IF shared.category # "ferrule" THEN designators ELSE <<>>]

ItemOf(x) == x.item

\* bom(): the connectors
bom_connectors(H, keys) ==
    LET types == Counter([i \in 1..Len(keys) |-> connector_type(H.connectors[keys[i]])])
    IN  sorted([i \in 1..Len(types) |-> connector_item(H, keys, types[i])], ItemOf)

\* sum(i.length for i in items)
RECURSIVE sum(_)
sum(lengths) == IF Len(lengths) = 0 THEN 0 ELSE Head(lengths) + sum(Tail(lengths))

cable_type(v) == <<v.category, v.gauge, v.gauge_unit, v.wirecount, v.shield>>

\* the line item of one group of cables that are not bundles
cable_item(H, keys, type) ==
    LET items == SelectSeq(keys, LAMBDA k : cable_type(H.cables[k]) = type)
        shared == H.cables[items[1]]
        designators == sorted(items, NameChars)
        total_length == sum([i \in 1..Len(items) |-> H.cables[items[i]].length])
        name == <<"C", "a", "b", "l", "e", ",", " ">> \o IntToStr(shared.wirecount)
                    \o (IF IsSet(shared.gauge)
                        THEN <<" ", "x", " ">> \o format(shared.gauge) \o <<" ">>
                                 \o format(shared.gauge_unit)
                        ELSE <<" ", "w", "i", "r", "e", "s">>)
                    \o (IF shared.shield
                        THEN <<" ", "s", "h", "i", "e", "l", "d", "e", "d">>
                        ELSE <<>>)
    IN  [item |-> name, qty |-> total_length, unit |-> "m", designators |-> designators]

\* bom(): the cables that are not bundles, one item per group, in the order of the groups
bom_plain_cables(H, keys) ==
    LET types == Counter([i \in 1..Len(keys) |-> cable_type(H.cables[keys[i]])])
        plain == SelectSeq(types, LAMBDA type : type[1] # "bundle")
    IN  [i \in 1..Len(plain) |-> cable_item(H, keys, plain[i])]

bundle_type(v) == <<v.category, v.gauge, v.gauge_unit, v.length>>

\* the wires of one bundle: each carries the names of all cables of the bundle's group
bundle_wires(bundle, group) ==
    [i \in 1..Len(bundle.colors) |->
        [gauge |-> bundle.gauge, gauge_unit |-> bundle.gauge_unit,
         length |-> bundle.length, color |-> bundle.colors[i], designators |-> group]]

RECURSIVE group_wires(_, _, _)
group_wires(H, group, i) ==
    IF i > Len(group) THEN <<>>
    ELSE bundle_wires(H.cables[group[i]], group) \o group_wires(H, group, i + 1)

\* wirelist: the wires of every bundle
RECURSIVE wirelist(_, _, _, _)
wirelist(H, keys, types, i) ==
    IF i > Len(types) THEN <<>>
    ELSE (IF types[i][1] = "bundle"
          THEN group_wires(H, SelectSeq(keys,
                                  LAMBDA k : bundle_type(H.cables[k]) = types[i]), 1)
          ELSE <<>>)
             \o wirelist(H, keys, types, i + 1)

wire_type(v) == <<v.gauge, v.gauge_unit, v.color>>

\* flatten the nested list of designators
RECURSIVE flatten(_)
flatten(lists) == IF Len(lists) = 0 THEN <<>> ELSE Head(lists) \o flatten(Tail(lists))

\* the line item of the wires of one gauge and colour
wire_item(wires, type) ==
    LET items == SelectSeq(wires, LAMBDA v : wire_type(v) = type)
        shared == items[1]
        designators ==
            sorted(Counter(flatten([i \in 1..Len(items) |-> items[i].designators])),
                   NameChars)
        total_length == sum([i \in 1..Len(items) |-> items[i].length])
        name == <<"W", "i", "r", "e", ",", " ">>
                    \o (IF IsSet(shared.gauge)
                        THEN format(shared.gauge) \o <<" ">> \o format(shared.gauge_unit)
                        ELSE <<>>)
                    \o (IF shared.color # ""
                        THEN <<",", " ">> \o ColorChars(shared.color)
                        ELSE <<>>)
    IN  [item |-> name, qty |-> total_length, unit |-> "m", designators |-> designators]

\* bom(): the cables and the wires of the bundles; the list is sorted each time a
\* wire item is appended, and only then
bom_cables(H, keys) ==
    LET plain == bom_plain_cables(H, keys)
        wires == wirelist(H, keys,
                          Counter([i \in 1..Len(keys) |-> bundle_type(H.cables[keys[i]])]),
                          1)
        types == Counter([i \in 1..Len(wires) |-> wire_type(wires[i])])
        all == plain \o [i \in 1..Len(types) |-> wire_item(wires, types[i])]
    IN  IF Len(types) > 0 THEN sorted(all, ItemOf) ELSE all

\* bom()
bom(H, declared_connectors, declared_cables) ==
    bom_connectors(H, connector_keys(H, declared_connectors))
        \o bom_cables(H, keys_in(declared_cables, H.cables))

-----------------------------------------------------------------------------
(* The document: names and attributes the sections may hold *)

MaxRecords == 2

ConnectorNames == {"X1", "_F1"}
CableNames == {"W1", "W2"}
FerruleNames == {"F1", "X1"}

ConnectorAttrs(n, p, h) ==
    [category |-> None, pincount |-> n, pinout |-> p, hide_disconnected_pins |-> h]

CableAttrs(n, c, code) ==
    [category |-> None, wirecount |-> n, colors |-> c, color_code |-> code]

ConnectorDecls ==
    {ConnectorAttrs(PNone, <<>>, FALSE), ConnectorAttrs(PNone, <<"A", "B">>, TRUE),
     ConnectorAttrs(PInt(2), <<"A", "B">>, FALSE)}

CableDecls ==
    {CableAttrs(PInt(2), <<>>, None), CableAttrs(PNone, <<>>, None)}

FerruleDecls ==
    {[pincount |-> PNone, pinout |-> <<>>, hide_disconnected_pins |-> FALSE]}

\* pin specifications of the records
One == PInt(1)
Two == PInt(2)
OneTwo == PList(<<PInt(1), PInt(2)>>)
TwoToOne == PStr(<<"2", "-", "1">>)
OneToThree == PStr(<<"1", "-", "3">>)

Records3 ==
    {<<Elem(f, p[1]), Elem(v, p[2]), Elem(t, p[3])>> :
        f \in {"X1"}, v \in CableNames, t \in ConnectorNames,
        p \in {<<OneTwo, OneTwo, OneTwo>>, <<One, Two, TwoToOne>>,
               <<OneTwo, OneToThree, OneTwo>>}}

Records2 ==
    {<<Elem(a, p[1]), Elem(b, p[2])>> :
        a \in {"X1", "_F1", "W1", "F1"}, b \in {"X1", "_F1", "W1", "F1"},
        p \in {<<One, Two>>}}
    \cup {<<Bare("F1"), Elem("W1", OneTwo)>>, <<Elem("X1", OneTwo), Elem("W1", One)>>,
          <<Elem("X1", OneTwo), Elem("W1", TwoToOne)>>}

NoRecord == <<>>

\* no graph built, no BOM computed, no conversion called yet
NoGraph == [nodes |-> <<>>, loops |-> <<>>, edges |-> <<>>]
NoBom == [called |-> FALSE, list |-> <<>>]
NoCall == [fn |-> "none"]

-----------------------------------------------------------------------------
(* wv_helper: awg_equiv() and mm2_equiv(). A result is [raises |-> the exception]
   or [returns |-> the kind of value, ...]; the floating-point value of a
   conversion is held as the integer it is computed from. *)

uncommon_awg ==
    (<<"0", "0", "0", "0">> :> <<"4", "/", "0">>) @@
    (<<"0", "0", "0">> :> <<"3", "/", "0">>) @@
    (<<"0", "0">> :> <<"2", "/", "0">>) @@
    (<<"0">> :> <<"1", "/", "0">>)

\* strict.lower()
lower(strict) ==
    CASE strict = "YES" -> "yes"
      [] strict = "NO" -> "no"
      [] OTHER -> strict

\* re.findall(r'\d+', s): the maximal digit runs of s, left to right
RECURSIVE findall(_)
findall(s) ==
    IF s = <<>> THEN <<>>
    ELSE IF ~IsDigit(s[1]) THEN findall(Tail(s))
    ELSE LET n == CHOOSE j \in 1..Len(s) :
                      /\ \A k \in 1..j : IsDigit(s[k])
                      /\ j = Len(s) \/ ~IsDigit(s[j + 1])
         IN  <<SubSeq(s, 1, n)>> \o findall(SubSeq(s, n + 1, Len(s)))

\* int(s), or the ValueError it raises
int_or_raise(s) ==
    IF IntParses(s) THEN [value |-> int(s)] ELSE [raises |-> "ValueError"]

\* int(re.findall(r'\d+', s)[0])
first_int(s) ==
    IF findall(s) = <<>> THEN [raises |-> "IndexError"]
    ELSE int_or_raise(findall(s)[1])

\* try: ... except ValueError: return 'Unknown (' + s + ')'
unknown_on_ValueError(r, s) ==
    IF r = [raises |-> "ValueError"] THEN [returns |-> "Unknown", text |-> s] ELSE r

\* s.find(c): the index, from 0, of the first c in s, or -1
find(s, c) ==
    IF \E i \in 1..Len(s) : s[i] = c
    THEN (CHOOSE i \in 1..Len(s) : s[i] = c /\ \A k \in 1..(i - 1) : s[k] # c) - 1
    ELSE -1

awg_equiv(mm2, strict) ==
    IF lower(strict) # "yes" /\ lower(strict) # "no" THEN [raises |-> "ValueError"]
    ELSE LET n == unknown_on_ValueError(first_int(mm2), mm2)
         IN  IF "value" \notin DOMAIN n THEN n
             \* log(0.0, 92): math domain error
             ELSE IF n.value = 0 THEN [raises |-> "ValueError"]
             ELSE [returns |-> "AWG", mm2 |-> n.value, strict |-> lower(strict)]

mm2_equiv(awg, strict) ==
    LET a == IF awg \in DOMAIN uncommon_awg THEN uncommon_awg[awg] ELSE awg
        n == IF find(a, "/") >= 0
             THEN LET c == int_or_raise(<<a[find(a, "/") + 1]>>)
                  IN  IF "value" \in DOMAIN c THEN [value |-> 1 - c.value] ELSE c
             ELSE unknown_on_ValueError(first_int(a), a)
    IN  IF "value" \notin DOMAIN n THEN n
        ELSE IF lower(strict) \in {"yes", "no"}
        THEN [returns |-> "mm2", awg |-> n.value, strict |-> lower(strict)]
        ELSE [raises |-> "NotImplementedError"]

-----------------------------------------------------------------------------
(* parse(): one action per dictionary item and per connection record *)

Init ==
    /\ pc = "connectors"
    /\ input = [connectors |-> <<>>, cables |-> <<>>, ferrules |-> <<>>,
                connector_keys |-> <<>>, cable_keys |-> <<>>]
    /\ connectors = <<>>
    /\ cables = <<>>
    /\ ferrule_counter = 0
    /\ con = NoRecord
    /\ err = "none"
    /\ nrec = 0
    /\ expIn = PList(<<>>)
    /\ expOut = NoResult
    /\ dot = NoGraph
    /\ bom_out = NoBom
    /\ conv = NoCall

Raise(e) == pc' = "error" /\ err' = e

\* h.add_connector(name=k, **o)
AddConnector(k, o) ==
    /\ pc = "connectors"
    /\ k \notin DOMAIN input.connectors
    /\ input' = [input EXCEPT !.connectors = (k :> o) @@ @,
                              !.connector_keys = Append(@, k)]
    /\ LET c == Connector_post_init(k, o)
       IN  IF c.err # "none"
           THEN Raise(c.err) /\ UNCHANGED connectors
           ELSE /\ connectors' = Harness_add_connector([connectors |-> connectors,
                                                        cables |-> cables], k, c.val).connectors
                /\ UNCHANGED <<pc, err>>
    /\ UNCHANGED <<cables, ferrule_counter, con, nrec, expIn, expOut, dot, bom_out, conv>>

\* h.add_cable(name=k, **o)
AddCable(k, o) ==
    /\ pc = "cables"
    /\ k \notin DOMAIN input.cables
    /\ input' = [input EXCEPT !.cables = (k :> o) @@ @,
                              !.cable_keys = Append(@, k)]
    /\ LET c == Cable_post_init(k, o)
       IN  IF c.err # "none"
           THEN Raise(c.err) /\ UNCHANGED cables
           ELSE cables' = (k :> c.val) @@ cables /\ UNCHANGED <<pc, err>>
    /\ UNCHANGED <<connectors, ferrule_counter, con, nrec, expIn, expOut, dot, bom_out, conv>>

\* a ferrule template is kept in the document only
AddFerrule(k, o) ==
    /\ pc = "ferrules"
    /\ k \notin DOMAIN input.ferrules
    /\ input' = [input EXCEPT !.ferrules = (k :> o) @@ @]
    /\ UNCHANGED <<pc, err, connectors, cables, ferrule_counter, con, nrec, expIn, expOut, dot, bom_out, conv>>

\* the loop over the sections goes on to the next section
NextSection ==
    /\ pc \in {"connectors", "cables", "ferrules"}
    /\ pc' = CASE pc = "connectors" -> "cables"
               [] pc = "cables" -> "ferrules"
               [] pc = "ferrules" -> "connections"
    /\ UNCHANGED <<input, err, connectors, cables, ferrule_counter, con, nrec, expIn, expOut, dot, bom_out, conv>>

\* len(con) == 3
Record3(rec) ==
    /\ pc = "connections"
    /\ nrec < MaxRecords
    /\ nrec' = nrec + 1
    /\ con' = rec
    /\ \E r \in {resolve3([connectors |-> connectors, cables |-> cables], rec)} :
           /\ connectors' = r.H.connectors
           /\ cables' = r.H.cables
           /\ IF r.err # "none" THEN Raise(r.err) ELSE UNCHANGED <<pc, err>>
    /\ UNCHANGED <<input, ferrule_counter, expIn, expOut, dot, bom_out, conv>>

\* len(con) == 2
Record2(rec) ==
    /\ pc = "connections"
    /\ nrec < MaxRecords
    /\ nrec' = nrec + 1
    /\ con' = rec
    /\ \E r \in {resolve2([connectors |-> connectors, cables |-> cables],
                          ferrule_counter, rec)} :
           /\ connectors' = r.H.connectors
           /\ cables' = r.H.cables
           /\ ferrule_counter' = r.fc
           /\ IF r.err # "none" THEN Raise(r.err) ELSE UNCHANGED <<pc, err>>
    /\ UNCHANGED <<input, expIn, expOut, dot, bom_out, conv>>

\* any other length
RecordOther(rec) ==
    /\ pc = "connections"
    /\ nrec < MaxRecords
    /\ nrec' = nrec + 1
    /\ con' = rec
    /\ Raise("Wrong number of connection parameters")
    /\ UNCHANGED <<input, connectors, cables, ferrule_counter, expIn, expOut, dot, bom_out, conv>>

\* the loop over the connection records ends: h.output() follows
EndConnections ==
    /\ pc = "connections"
    /\ pc' = "output"
    /\ UNCHANGED <<input, err, connectors, cables, ferrule_counter, con, nrec, expIn, expOut, dot, bom_out, conv>>

\* h.create_graph()
CreateGraph ==
    /\ pc = "output"
    /\ \E r \in {create_graph([connectors |-> connectors, cables |-> cables])} :
           /\ connectors' = r.H.connectors
           /\ IF r.err # "none"
              THEN Raise(r.err) /\ UNCHANGED dot
              ELSE pc' = "done" /\ dot' = r.dot /\ UNCHANGED err
    /\ UNCHANGED <<input, cables, ferrule_counter, con, nrec, expIn, expOut, bom_out, conv>>

Next ==
    \/ \E k \in ConnectorNames, o \in ConnectorDecls : AddConnector(k, o)
    \/ \E k \in CableNames, o \in CableDecls : AddCable(k, o)
    \/ \E k \in FerruleNames, o \in FerruleDecls : AddFerrule(k, o)
    \/ NextSection
    \/ \E rec \in Records3 : Record3(rec)
    \/ \E rec \in Records2 : Record2(rec)
    \/ RecordOther(<<Bare("X1")>>)
    \/ EndConnections
    \/ CreateGraph

Spec == Init /\ [][Next]_vars

\* expand() called on its own
Expand(x) ==
    /\ expIn' = x
    /\ expOut' = expand(x)
    /\ UNCHANGED <<pc, input, connectors, cables, ferrule_counter, con, err, nrec,
                   dot, bom_out, conv>>

NextExpand == \E x \in ExpandInputs : Expand(x)

SpecExpand == Init /\ [][NextExpand]_vars

-----------------------------------------------------------------------------
(* The cables section on its own, over every wirecount, colour list and color code *)

MaxWires == 4
MaxColors == 3

AllColors == <<"RD", "BK", "BU", "YE", "GN">>

CableDeclsAll ==
    {CableAttrs(n, Prefix(AllColors, j), code) :
        n \in {PNone} \cup {PInt(i) : i \in (-1)..MaxWires},
        j \in 0..MaxColors,
        code \in {None, "DIN", "BW", "XX"}}

NextCables ==
    \/ NextSection
    \/ \E k \in CableNames, o \in CableDeclsAll : AddCable(k, o)

SpecCables == Init /\ [][NextCables]_vars

(* The connectors and the ferrules they are made from, over every pincount and pinout *)

MaxPins == 2

AllLabels == <<"A", "B", "C", "D">>

ConnectorDeclsAll ==
    {ConnectorAttrs(n, Prefix(AllLabels, j), FALSE) :
        n \in {PNone} \cup {PInt(i) : i \in (-1)..MaxPins}, j \in 0..MaxPins}

FerruleDeclsAll ==
    {[pincount |-> n, pinout |-> Prefix(AllLabels, j), hide_disconnected_pins |-> FALSE] :
        n \in {PNone} \cup {PInt(i) : i \in (-1)..MaxPins}, j \in 0..MaxPins}

FerruleRecords ==
    {<<Bare("F1"), Elem("W1", One)>>, <<Elem("W1", OneTwo), Bare("F1")>>}

NextConnectors ==
    \/ NextSection
    \/ \E k \in ConnectorNames, o \in ConnectorDeclsAll : AddConnector(k, o)
    \/ \E o \in CableDecls : AddCable("W1", o)
    \/ \E o \in FerruleDeclsAll : AddFerrule("F1", o)
    \/ \E rec \in FerruleRecords : Record2(rec)

SpecConnectors == Init /\ [][NextConnectors]_vars

(* parse() and create_graph() over loops, pin labels and conductor numbers *)

LabelA == PStr(<<"A">>)
Three == PInt(3)

GraphConnectorDecls ==
    {ConnectorAttrs(PNone, <<"A", "B">>, TRUE), ConnectorAttrs(PInt(2), <<>>, FALSE),
     [ConnectorAttrs(PInt(2), <<>>, FALSE) EXCEPT !.category = "ferrule"]}

GraphRecords3 ==
    {<<Elem("X1", One), Elem("W1", One), Elem("_F1", Two)>>,
     <<Elem("X1", LabelA), Elem("W1", Two), Elem("_F1", One)>>,
     <<Elem("X1", One), Elem("W1", Three), Elem("X1", Two)>>}

GraphRecords2 ==
    {<<Elem("X1", One), Elem("X1", Two)>>,
     <<Elem("_F1", One), Elem("_F1", Two)>>,
     <<Elem("X1", LabelA), Elem("W1", One)>>,
     <<Elem("W1", Two), Elem("X1", Two)>>,
     <<Bare("F1"), Elem("W1", OneTwo)>>}

NextGraph ==
    \/ \E k \in ConnectorNames, o \in GraphConnectorDecls : AddConnector(k, o)
    \/ AddCable("W1", CableAttrs(PInt(2), <<>>, None))
    \/ \E o \in FerruleDecls : AddFerrule("F1", o)
    \/ NextSection
    \/ \E rec \in GraphRecords3 : Record3(rec)
    \/ \E rec \in GraphRecords2 : Record2(rec)
    \/ EndConnections
    \/ CreateGraph

SpecGraph == Init /\ [][NextGraph]_vars

(* The methods of a resolved Harness, called in any order and any number of times *)

\* h.create_graph()
CallCreateGraph ==
    /\ pc = "output"
    /\ \E r \in {create_graph([connectors |-> connectors, cables |-> cables])} :
           /\ connectors' = r.H.connectors
           /\ IF r.err # "none"
              THEN Raise(r.err) /\ UNCHANGED dot
              ELSE dot' = r.dot /\ UNCHANGED <<pc, err>>
    /\ UNCHANGED <<input, cables, ferrule_counter, con, nrec, expIn, expOut, bom_out, conv>>

\* h.bom()
CallBom ==
    /\ pc = "output"
    /\ bom_out' = [called |-> TRUE,
                   list |-> bom([connectors |-> connectors, cables |-> cables],
                                input.connector_keys, input.cable_keys)]
    /\ UNCHANGED <<pc, input, err, connectors, cables, ferrule_counter, con, nrec,
                   expIn, expOut, dot, conv>>

NextOutput ==
    \/ \E k \in ConnectorNames, o \in ConnectorDecls : AddConnector(k, o)
    \/ \E k \in CableNames, o \in CableDecls : AddCable(k, o)
    \/ \E o \in FerruleDecls : AddFerrule("F1", o)
    \/ NextSection
    \/ \E rec \in Records3 : Record3(rec)
    \/ \E rec \in GraphRecords2 : Record2(rec)
    \/ EndConnections
    \/ CallCreateGraph
    \/ CallBom

SpecOutput == Init /\ [][NextOutput]_vars

(* parse() and bom() over connector types, ferrules, cables and bundles *)

TypeD == PStr(<<"D">>)

BomConnectorDecls ==
    {ConnectorAttrs(PNone, <<>>, FALSE),
     [type |-> TypeD] @@ ConnectorAttrs(PInt(2), <<>>, FALSE),
     [ConnectorAttrs(PNone, <<>>, FALSE) EXCEPT !.category = "ferrule"]}

MaxLength == 2

BomCableDecls ==
    {[length |-> 1, gauge |-> g] @@ CableAttrs(PInt(n), <<>>, None) :
        n \in 1..2, g \in {PNone, PInt(1), PStr(<<"1", " ", "m", "m", "2">>), PStr(<<"1">>)}}
    \cup
    {[length |-> l] @@ [CableAttrs(PNone, c, None) EXCEPT !.category = "bundle"] :
        l \in 1..MaxLength, c \in {<<"RD">>, <<"BK">>, <<"RD", "BK">>, <<"RD", "RD">>}}

BomRecords == {<<Bare("F1"), Elem("W1", One)>>}

NextBom ==
    \/ \E k \in ConnectorNames, o \in BomConnectorDecls : AddConnector(k, o)
    \/ \E k \in CableNames, o \in BomCableDecls : AddCable(k, o)
    \/ \E o \in FerruleDecls : AddFerrule("F1", o)
    \/ NextSection
    \/ \E rec \in BomRecords : Record2(rec)
    \/ EndConnections
    \/ CallBom

SpecBom == Init /\ [][NextBom]_vars

(* awg_equiv() and mm2_equiv() called on their own *)

MaxText == 4

GaugeChars == {"0", "1", "2", "/", "a"}

RECURSIVE TextsOfLen(_)
TextsOfLen(n) ==
    IF n = 0 THEN {<<>>}
    ELSE {Append(s, c) : s \in TextsOfLen(n - 1), c \in GaugeChars}

Texts == UNION {TextsOfLen(n) : n \in 0..MaxText}

StrictModes == {"yes", "no", "YES", "maybe"}

\* the text and the strict mode of the call are drawn at the start
InitGauge ==
    /\ conv \in {[fn |-> "none", text |-> t, strict |-> m] : t \in Texts, m \in StrictModes}
    /\ pc = "connectors"
    /\ input = [connectors |-> <<>>, cables |-> <<>>, ferrules |-> <<>>,
                connector_keys |-> <<>>, cable_keys |-> <<>>]
    /\ connectors = <<>>
    /\ cables = <<>>
    /\ ferrule_counter = 0
    /\ con = NoRecord
    /\ err = "none"
    /\ nrec = 0
    /\ expIn = PList(<<>>)
    /\ expOut = NoResult
    /\ dot = NoGraph
    /\ bom_out = NoBom

Call_awg_equiv ==
    /\ conv' = [result |-> awg_equiv(conv.text, conv.strict)] @@
               [conv EXCEPT !.fn = "awg_equiv"]
    /\ UNCHANGED <<pc, input, err, connectors, cables, ferrule_counter, con, nrec,
                   expIn, expOut, dot, bom_out>>

Call_mm2_equiv ==
    /\ conv' = [result |-> mm2_equiv(conv.text, conv.strict)] @@
               [conv EXCEPT !.fn = "mm2_equiv"]
    /\ UNCHANGED <<pc, input, err, connectors, cables, ferrule_counter, con, nrec,
                   expIn, expOut, dot, bom_out>>

NextGauge == Call_awg_equiv \/ Call_mm2_equiv

SpecGauge == InitGauge /\ [][NextGauge]_vars

-----------------------------------------------------------------------------
(* Properties of the connection resolver *)

\* a step of the loop over the connection records; con' is the record it reads
RecordStep == pc = "connections" /\ nrec' = nrec + 1

ExpandsOk(rec) == \A i \in 1..Len(rec) : expand(rec[i].val).err = "none"

PinsOf(rec, i) == expand(rec[i].val).out

Valid3(rec) ==
    /\ Len(rec) = 3
    /\ \A i \in 1..3 : rec[i].isdict
    /\ rec[1].key \in DOMAIN input.connectors
    /\ rec[2].key \in DOMAIN input.cables
    /\ rec[3].key \in DOMAIN input.connectors
    /\ ExpandsOk(rec)

SameLength3(rec) ==
    /\ Len(PinsOf(rec, 1)) = Len(PinsOf(rec, 2))
    /\ Len(PinsOf(rec, 2)) = Len(PinsOf(rec, 3))

\* C1: a 3-element record (declared connector, declared cable, declared connector)
\* whose three pin expansions have the same length n is accepted and appends, after
\* the Connections the named cable already holds, exactly the n Connections
\* (from_name, from_pins[i], via_pins[i], to_name, to_pins[i]) in index order; no
\* other cable changes; from_pins[i] is visible on the from-connector and to_pins[i]
\* on the to-connector.
C1_ThreeElementRecordAppends ==
    [][(RecordStep /\ Valid3(con') /\ SameLength3(con')) =>
        LET rec == con'
            n == Len(PinsOf(rec, 2))
            added == [i \in 1..n |->
                         Connection(rec[1].key, PinsOf(rec, 1)[i], PinsOf(rec, 2)[i],
                                    rec[3].key, PinsOf(rec, 3)[i])]
        IN  /\ err' = "none"
            /\ pc' = "connections"
            /\ DOMAIN cables' = DOMAIN cables
            /\ cables'[rec[2].key].connections = cables[rec[2].key].connections \o added
            /\ \A w \in DOMAIN cables \ {rec[2].key} : cables'[w] = cables[w]
            /\ \A i \in 1..n :
                   /\ PinsOf(rec, 1)[i] \in connectors'[rec[1].key].visible_pins
                   /\ PinsOf(rec, 3)[i] \in connectors'[rec[3].key].visible_pins]_vars

\* a second record, of three elements and two pins a side, was accepted into a cable
\* that already held Connections, beside another cable
C1_Witness ==
    /\ pc = "connections"
    /\ err = "none"
    /\ nrec = 2
    /\ Len(con) = 3
    /\ Cardinality(DOMAIN cables) = 2
    /\ Len(cables[con[2].key].connections) > 2
    /\ con[1].key # con[3].key

\* C2: a 3-element record with valid designators whose three pin expansions are not
\* all of one length fails with 'List length mismatch' and leaves the Harness as it
\* was: no Connection added, no pin made visible.
C2_LengthMismatchRejected ==
    [][(RecordStep /\ Valid3(con') /\ ~SameLength3(con')) =>
        /\ pc' = "error"
        /\ err' = "List length mismatch"
        /\ connectors' = connectors
        /\ cables' = cables]_vars

\* the second record had a from list of 2 pins and a via list of 3, and was refused
\* by a Harness that held Connections
C2_Witness ==
    /\ pc = "error"
    /\ err = "List length mismatch"
    /\ nrec = 2
    /\ Len(con) = 3
    /\ Len(expand(con[1].val).out) = 2
    /\ Len(expand(con[2].val).out) = 3
    /\ \E w \in DOMAIN cables : Len(cables[w].connections) > 0

\* the role patterns of a 2-element record that match its two names
Patterns(rec) ==
    {p \in {<<"connectors", "cables">>, <<"cables", "connectors">>,
            <<"connectors", "connectors">>, <<"ferrules", "cables">>,
            <<"cables", "ferrules">>} :
        rec[1].key \in DOMAIN input[p[1]] /\ rec[2].key \in DOMAIN input[p[2]]}

\* C3: a 2-element record that matches none of the five role patterns, or more than
\* one of them, is rejected as 'Wrong designators' and changes nothing in the Harness.
C3_ExactlyOnePattern ==
    [][(RecordStep /\ Len(con') = 2 /\ Cardinality(Patterns(con')) # 1) =>
        /\ pc' = "error"
        /\ err' = "Wrong designators"
        /\ connectors' = connectors
        /\ cables' = cables]_vars

\* the Connections a step appends to cable w
Appended(w) ==
    SubSeq(cables'[w].connections, Len(cables[w].connections) + 1,
           Len(cables'[w].connections))

\* C4: a ferrule-template/cable record, in either direction, whose cable pins expand
\* to k pins adds exactly k connectors under names no connector of the Harness had,
\* each of category ferrule with pin 1 its one visible pin, and appends k
\* Connections to the named cable, the i-th linking a new connector of its own to
\* the i-th cable pin.
C4_FerruleInstancesFresh ==
    [][(/\ RecordStep
        /\ Len(con') = 2
        /\ Patterns(con') \in {{<<"ferrules", "cables">>}, {<<"cables", "ferrules">>}}
        /\ ExpandsOk(con')) =>
        LET rec == con'
            fer_cbl == Patterns(rec) = {<<"ferrules", "cables">>}
            w == IF fer_cbl THEN rec[2].key ELSE rec[1].key
            pins == IF fer_cbl THEN PinsOf(rec, 2) ELSE PinsOf(rec, 1)
            k == Len(pins)
            New == DOMAIN connectors' \ DOMAIN connectors
            end(x) == IF fer_cbl THEN x.from_name ELSE x.to_name
        IN  /\ err' = "none"
            /\ Cardinality(New) = k
            /\ \A c \in New : /\ connectors'[c].category = "ferrule"
                              /\ connectors'[c].visible_pins = {PInt(1)}
            /\ cables'[w].connections = cables[w].connections \o Appended(w)
            /\ Len(Appended(w)) = k
            /\ \A i \in 1..k : /\ Appended(w)[i].via_port = pins[i]
                               /\ end(Appended(w)[i]) \in New
            /\ \A i, j \in 1..k : i # j => end(Appended(w)[i]) # end(Appended(w)[j])]_vars

\* C5: a 2-element record whose two names are both declared connectors is accepted
\* only when both name the same connector; it appends one loop (from_pins[i],
\* to_pins[i]) per index to the first-named connector and leaves every cable and
\* every other connector's loops as they were.
C5_LoopWithinOneConnector ==
    [][(/\ RecordStep
        /\ Len(con') = 2
        /\ Patterns(con') = {<<"connectors", "connectors">>}
        /\ err' = "none") =>
        LET rec == con'
            n == Len(PinsOf(rec, 1))
        IN  /\ rec[1].key = rec[2].key
            /\ connectors'[rec[1].key].loops = connectors[rec[1].key].loops \o
                   [i \in 1..n |-> <<PinsOf(rec, 1)[i], PinsOf(rec, 2)[i]>>]
            /\ cables' = cables
            /\ \A k \in DOMAIN connectors \ {rec[1].key} :
                   connectors'[k].loops = connectors[k].loops]_vars

-----------------------------------------------------------------------------
(* Properties of the graph builder *)

IsFromEndpoint(k) ==
    \E w \in DOMAIN cables : \E i \in 1..Len(cables[w].connections) :
        cables[w].connections[i].from_name = k

IsToEndpoint(k) ==
    \E w \in DOMAIN cables : \E i \in 1..Len(cables[w].connections) :
        cables[w].connections[i].to_name = k

ExampleRecord == <<Elem("X1", OneTwo), Elem("W1", OneTwo), Elem("X1", OneTwo)>>

\* C10: once the graph is built, a connector has ports_right exactly when it is the
\* from-endpoint of some Connection and ports_left exactly when it is the
\* to-endpoint of one; after the one record [{X1:[1,2]},{W1:[1,2]},{X1:[1,2]}] cable
\* W1 holds 2 Connections and X1 has pins 1 and 2 visible and both sides true.
C10_PortSides ==
    pc = "done" =>
        /\ \A k \in DOMAIN connectors :
               /\ connectors[k].ports_right <=> IsFromEndpoint(k)
               /\ connectors[k].ports_left <=> IsToEndpoint(k)
        /\ (nrec = 1 /\ con = ExampleRecord) =>
               /\ Len(cables["W1"].connections) = 2
               /\ {PInt(1), PInt(2)} \subseteq connectors["X1"].visible_pins
               /\ connectors["X1"].ports_left
               /\ connectors["X1"].ports_right

\* the graph of the example was built, beside a connector that is on no Connection
\* and a cable that holds none
C10_Witness ==
    /\ pc = "done"
    /\ nrec = 1
    /\ con = ExampleRecord
    /\ connectors["X1"].ports_left
    /\ connectors["X1"].ports_right
    /\ \E k \in DOMAIN connectors : ~connectors[k].ports_left /\ ~connectors[k].ports_right

-----------------------------------------------------------------------------
(* Properties of expand() *)

\* the number a digit string writes, digit by digit from the left
RECURSIVE Pow10(_)
Pow10(n) == IF n = 0 THEN 1 ELSE 10 * Pow10(n - 1)

RECURSIVE Written(_)
Written(s) ==
    IF s = <<>> THEN 0
    ELSE DigitVal(Head(s)) * Pow10(Len(s) - 1) + Written(Tail(s))

\* the place of the '-' of a text 'a-b' with a and b written in digits, or 0
DashOfRange(t) ==
    IF \E i \in 1..Len(t) : /\ t[i] = "-"
                            /\ AllDigits(SubSeq(t, 1, i - 1))
                            /\ AllDigits(SubSeq(t, i + 1, Len(t)))
    THEN CHOOSE i \in 1..Len(t) : /\ t[i] = "-"
                                  /\ AllDigits(SubSeq(t, 1, i - 1))
                                  /\ AllDigits(SubSeq(t, i + 1, Len(t)))
    ELSE 0

TextOf(e) == IF IsInt(e) THEN IntToStr(e.int) ELSE e.str

\* the elements the statement speaks of: 'a-b', or a text without '-'
Stated(e) == DashOfRange(TextOf(e)) > 0 \/ \A i \in 1..Len(TextOf(e)) : TextOf(e)[i] # "-"

\* what the statement says an element yields
Yield(e) ==
    LET t == TextOf(e)
        d == DashOfRange(t)
        a == Written(SubSeq(t, 1, d - 1))
        b == Written(SubSeq(t, d + 1, Len(t)))
    IN  IF d > 0
        THEN [j \in 1..((IF a < b THEN b - a ELSE a - b) + 1) |->
                 PInt(IF a < b THEN a + (j - 1) ELSE a - (j - 1))]
        ELSE IF IsInt(e) THEN <<e>>
        ELSE IF AllDigits(t) THEN <<PInt(Written(t))>>
        ELSE <<PStr(t)>>

RECURSIVE InOrder(_)
InOrder(elements) ==
    IF elements = <<>> THEN <<>>
    ELSE Yield(Head(elements)) \o InOrder(Tail(elements))

\* C9: expand returns, in input order, the inclusive range of every element 'a-b'
\* (upwards when a < b, downwards when a > b, [a] when a = b), the integer an
\* element without '-' parses to and otherwise its text; a scalar is a list of one
\* element; expand("3-1") = [3,2,1], expand("1-1") = [1], expand(["A",2]) = ["A",2].
C9_ExpandInOrder ==
    LET elements == IF IsList(expIn) THEN expIn.list ELSE <<expIn>>
    IN  /\ (\A i \in 1..Len(elements) : Stated(elements[i])) =>
               expOut = [err |-> "none", out |-> InOrder(elements)]
        /\ expIn = PStr(<<"3", "-", "1">>) => expOut.out = <<PInt(3), PInt(2), PInt(1)>>
        /\ expIn = PStr(<<"1", "-", "1">>) => expOut.out = <<PInt(1)>>
        /\ expIn = PList(<<PStr(<<"A">>), PInt(2)>>) => expOut.out = <<PStr(<<"A">>), PInt(2)>>

\* a list whose first element is a descending range was expanded in place
C9_Witness ==
    /\ expIn = PList(<<PStr(<<"3", "-", "1">>), PInt(2)>>)
    /\ expOut = [err |-> "none", out |-> <<PInt(3), PInt(2), PInt(1), PInt(2)>>]

-----------------------------------------------------------------------------
(* Properties of the entity model *)

WirecountGiven(o) == IsInt(o.wirecount) /\ o.wirecount.int >= 1

KnownCode(o) == o.color_code \in DOMAIN COLOR_CODES

\* C6: a declared cable has as many colours as its wirecount; a wirecount n given
\* with a colour list or a named palette of m colours makes colour i, for i in 1..n,
\* the palette's colour ((i-1) mod m)+1; without a wirecount the wirecount is the
\* length of the colour list.
C6_ColorsMatchWirecount ==
    \A k \in DOMAIN cables :
        LET o == input.cables[k]
            c == cables[k]
            palette == IF Len(o.colors) > 0 THEN o.colors ELSE COLOR_CODES[o.color_code]
        IN  /\ c.wirecount = Len(c.colors)
            /\ (WirecountGiven(o) /\ (Len(o.colors) > 0 \/ KnownCode(o))) =>
                   /\ c.wirecount = o.wirecount.int
                   /\ \A i \in 1..o.wirecount.int :
                          c.colors[i] = palette[((i - 1) % Len(palette)) + 1]
            /\ IsNone(o.wirecount) => c.wirecount = Len(o.colors) /\ c.colors = o.colors

Rejected(k, e) == k \notin DOMAIN cables /\ pc = "error" /\ err = e

\* C8 as stated: a cable declaration is rejected, and no cable added, when neither
\* wirecount nor a non-empty colors list is given, and when its color_code names no
\* known palette, whatever wirecount and colors it carries.
C8_UnknownCodeAlwaysRejected ==
    \A k \in DOMAIN input.cables :
        LET o == input.cables[k]
        IN  /\ (IsNone(o.wirecount) /\ Len(o.colors) = 0) =>
                   Rejected(k, "Unknown number of wires")
            /\ (o.color_code # None /\ ~KnownCode(o)) =>
                   \/ Rejected(k, "Unknown color code")
                   \/ Rejected(k, "Unknown number of wires")

\* C8 amended: a cable declaration is rejected, and no cable added, when neither
\* wirecount nor a non-empty colors list is given, and when it carries no colors
\* list and its color_code names no known palette; a declaration that carries a
\* non-empty colors list is accepted whatever its color_code.
C8_UnknownCodeRejectedWhenUsed ==
    \A k \in DOMAIN input.cables :
        LET o == input.cables[k]
        IN  /\ (IsNone(o.wirecount) /\ Len(o.colors) = 0) =>
                   Rejected(k, "Unknown number of wires")
            /\ (Len(o.colors) = 0 /\ o.color_code # None /\ ~KnownCode(o)) =>
                   \/ Rejected(k, "Unknown color code")
                   \/ Rejected(k, "Unknown number of wires")
            /\ (Truthy(o.wirecount) /\ Len(o.colors) = 0
                    /\ o.color_code # None /\ ~KnownCode(o)) =>
                   Rejected(k, "Unknown color code")
            /\ Len(o.colors) > 0 => k \in DOMAIN cables

\* a cable with colours and the unknown color code XX was accepted, then one with a
\* wirecount, no colours and XX was rejected
C8_Witness ==
    /\ pc = "error"
    /\ err = "Unknown color code"
    /\ \E k \in DOMAIN cables : input.cables[k].color_code = "XX"
    /\ \E k \in DOMAIN input.cables \ DOMAIN cables :
           /\ input.cables[k].color_code = "XX"
           /\ WirecountGiven(input.cables[k])

BothGiven(o) == Len(o.pinout) > 0 /\ ~IsNone(o.pincount)

NeitherGiven(o) == Len(o.pinout) = 0 /\ IsNone(o.pincount)

\* C7: every stored connector, declared or made from a ferrule template, has a
\* pincount equal to the length of its pinout and at least 1; a declaration giving
\* both a pinout and a pincount fails with the schema error and stores no connector;
\* a declaration giving neither stores pincount 1 and one blank pin label.
C7_PincountIsPinoutLength ==
    /\ [](\A k \in DOMAIN connectors :
              /\ connectors[k].pincount = Len(connectors[k].pinout)
              /\ connectors[k].pincount >= 1)
    /\ [][\A k \in DOMAIN input'.connectors \ DOMAIN input.connectors :
              LET o == input'.connectors[k]
              IN  /\ BothGiven(o) =>
                         /\ pc' = "error"
                         /\ err' = "You cannot specify both pinout and pincount"
                         /\ connectors' = connectors
                  /\ NeitherGiven(o) =>
                         /\ k \in DOMAIN connectors'
                         /\ connectors'[k].pincount = 1
                         /\ connectors'[k].pinout = <<"">>]_vars

-----------------------------------------------------------------------------
(* Properties of create_graph() *)

HasLoops(k) == Len(connectors[k].loops) > 0

\* C11: building the graph fails for every connector, of any category, that has a
\* loop and is neither the from-endpoint nor the to-endpoint of a Connection; when
\* the graph is built, every loop of a connector is one edge between its two pins,
\* on the left side if ports_left is true and on the right side otherwise.
C11_LoopsNeedSide ==
    [][pc = "output" =>
          /\ (\E k \in DOMAIN connectors :
                  HasLoops(k) /\ ~IsFromEndpoint(k) /\ ~IsToEndpoint(k))
                 => pc' = "error" /\ err' = "No side for loops"
          /\ pc' = "done" =>
                 \A k \in DOMAIN connectors :
                     HasLoops(k) =>
                         /\ k \in DOMAIN dot'.loops
                         /\ Len(dot'.loops[k]) = Len(connectors[k].loops)
                         /\ \A i \in 1..Len(connectors[k].loops) :
                                dot'.loops[k][i] =
                                    [name |-> k,
                                     port_from |-> connectors[k].loops[i][1],
                                     port_to |-> connectors[k].loops[i][2],
                                     loop_side |-> IF connectors'[k].ports_left
                                                   THEN "l" ELSE "r"]]_vars

\* the port names the pin at position i of connector k: its number or its label
Names(port, k, i) ==
    \/ port = PInt(i)
    \/ IsStr(port) /\ Len(port.str) = 1 /\ port.str[1] = connectors[k].pinout[i]

\* the pin at position i of connector k is an endpoint of a Connection or of a loop
IsEndpointPin(k, i) ==
    \/ \E w \in DOMAIN cables : \E j \in 1..Len(cables[w].connections) :
           LET x == cables[w].connections[j]
           IN  \/ x.from_name = k /\ Names(x.from_port, k, i)
               \/ x.to_name = k /\ Names(x.to_port, k, i)
    \/ \E j \in 1..Len(connectors[k].loops) :
           \/ Names(connectors[k].loops[j][1], k, i)
           \/ Names(connectors[k].loops[j][2], k, i)

\* C12: once the graph is built, the pin at position i of a connector that is not a
\* ferrule is in the node's port list exactly when hide_disconnected_pins is unset
\* or the pin is an endpoint of a Connection or of a loop, whether a record named
\* the pin by its position or by its label.
C12_PinsShown ==
    pc = "done" =>
        \A k \in DOMAIN connectors :
            connectors[k].category # "ferrule" =>
                \A i \in 1..Len(connectors[k].pinout) :
                    (\E j \in 1..Len(dot.nodes[k].pins) : dot.nodes[k].pins[j] = i)
                        <=> (~connectors[k].hide_disconnected_pins \/ IsEndpointPin(k, i))

\* C18: every Connection stored in a cable has a via_port that is a conductor
\* number in 1..wirecount of that cable, or is not a number at all (the shield).
C18_ViaPortIsConductor ==
    \A w \in DOMAIN cables :
        \A i \in 1..Len(cables[w].connections) :
            LET via == cables[w].connections[i].via_port
            IN  IsInt(via) => via.int \in 1..cables[w].wirecount

-----------------------------------------------------------------------------
(* Properties of bom() *)

\* the line items of the connectors have no unit, those of cables and wires have 'm'
ConnectorItems == SelectSeq(bom_out.list, LAMBDA x : x.unit = "")
CableItems == SelectSeq(bom_out.list, LAMBDA x : x.unit = "m")

Elems(list) == {list[i] : i \in 1..Len(list)}

Ascending(names) ==
    \A i \in 1..(Len(names) - 1) : Less(NameChars(names[i]), NameChars(names[i + 1]))

ConnectorGroup(type) == {k \in DOMAIN connectors : connector_type(connectors[k]) = type}

IsFerrule(k) == connectors[k].category = "ferrule"

RECURSIVE SumQty(_)
SumQty(items) == IF Len(items) = 0 THEN 0 ELSE Head(items).qty + SumQty(Tail(items))

\* C13: the BOM has one connector item per distinct (type, subtype, pincount); the
\* quantities add up to the number of connectors; no ferrule name is in any
\* designators cell; every connector that is not a ferrule is listed in one item,
\* whose quantity is the size of its group and whose designators are the sorted
\* names of the group's connectors that are not ferrules.
C13_ConnectorItems ==
    bom_out.called =>
        /\ Len(ConnectorItems)
               = Cardinality({connector_type(connectors[k]) : k \in DOMAIN connectors})
        /\ SumQty(ConnectorItems) = Cardinality(DOMAIN connectors)
        /\ \A i \in 1..Len(ConnectorItems) :
               \A k \in Elems(ConnectorItems[i].designators) : ~IsFerrule(k)
        /\ \A k \in DOMAIN connectors :
               ~IsFerrule(k) =>
                   \E i \in 1..Len(ConnectorItems) :
                       LET x == ConnectorItems[i]
                           group == ConnectorGroup(connector_type(connectors[k]))
                       IN  /\ x.qty = Cardinality(group)
                           /\ Elems(x.designators) = {g \in group : ~IsFerrule(g)}
                           /\ Ascending(x.designators)
                           /\ \A j \in 1..Len(ConnectorItems) :
                                  k \in Elems(ConnectorItems[j].designators) => j = i

Bundles == {w \in DOMAIN cables : cables[w].category = "bundle"}

\* the keys (gauge, gauge_unit, color) of the conductors of the bundles
WireKeys ==
    UNION {{<<cables[w].gauge, cables[w].gauge_unit, cables[w].colors[i]>> :
               i \in 1..Len(cables[w].colors)} : w \in Bundles}

Conductors(w, key) ==
    {i \in 1..Len(cables[w].colors) :
        <<cables[w].gauge, cables[w].gauge_unit, cables[w].colors[i]>> = key}

RECURSIVE SumLength(_, _)
SumLength(ws, key) ==
    IF ws = {} THEN 0
    ELSE LET w == CHOOSE x \in ws : TRUE
         IN  cables[w].length * Cardinality(Conductors(w, key)) + SumLength(ws \ {w}, key)

WireItems == SelectSeq(CableItems, LAMBDA x : Len(x.item) > 0 /\ x.item[1] = "W")

\* C14: the BOM has one wire item per distinct (gauge, gauge_unit, color) over the
\* conductors of the bundles; its quantity is the sum of the owning bundle's length
\* over the conductors with that key, and its designators are the sorted names,
\* each once, of exactly the bundles that own a conductor with that key.
C14_BundleWireItems ==
    bom_out.called =>
        /\ Len(WireItems) = Cardinality(WireKeys)
        /\ \A key \in WireKeys :
               \E i \in 1..Len(WireItems) :
                   LET x == WireItems[i]
                   IN  /\ x.qty = SumLength(Bundles, key)
                       /\ Elems(x.designators) = {w \in Bundles : Conductors(w, key) # {}}
                       /\ Ascending(x.designators)
                       /\ x.item[Len(x.item)] = ColorChars(key[3])[Len(ColorChars(key[3]))]

\* C15: in the BOM all connector items come before all cable and wire items, and
\* the cable and wire items are in ascending order of their description, bundles
\* or no bundles.
C15_BomOrder ==
    bom_out.called =>
        /\ bom_out.list = ConnectorItems \o CableItems
        /\ \A i \in 1..(Len(CableItems) - 1) :
               ~Less(CableItems[i + 1].item, CableItems[i].item)

-----------------------------------------------------------------------------
(* Properties of the methods of a resolved Harness *)

SameBom == (bom_out.called /\ bom_out'.called) => bom_out' = bom_out

SameButPorts(k) ==
    [connectors'[k] EXCEPT !.ports_left = connectors[k].ports_left,
                           !.ports_right = connectors[k].ports_right] = connectors[k]

-----------------------------------------------------------------------------
(* Properties of awg_equiv() and mm2_equiv() *)

HasNumber(s) == \E i \in 1..Len(s) : IsDigit(s[i])

\* 'N/0' for a digit N
IsSlashZero(s) == Len(s) = 3 /\ IsDigit(s[1]) /\ s[2] = "/" /\ s[3] = "0"

\* the N of 'N/0', and of '0' .. '0000'
SlashZeroN(s) == IF IsSlashZero(s) THEN DigitVal(s[1]) ELSE Len(s)

\* C17: for every text and strict mode in {yes, no}, awg_equiv and mm2_equiv return
\* and never raise; a text with no number yields 'Unknown (<text>)'; mm2_equiv takes
\* every 'N/0' and every '0', '00', '000', '0000' as AWG number 1 - N.
C17_ConversionsReturn ==
    (conv.fn # "none" /\ lower(conv.strict) \in {"yes", "no"}) =>
        /\ "returns" \in DOMAIN conv.result
        /\ ~HasNumber(conv.text) =>
               conv.result = [returns |-> "Unknown", text |-> conv.text]
        /\ (/\ conv.fn = "mm2_equiv"
            /\ IsSlashZero(conv.text) \/ conv.text \in DOMAIN uncommon_awg) =>
               /\ conv.result.returns = "mm2"
               /\ conv.result.awg = 1 - SlashZeroN(conv.text)

=============================================================================
